---- MODULE Spec2Model ----
(* Model of motion::AxisStepper (src/src/motion/axisstepper.h): the        *)
(* multi-axis selection of the next step (getNextTime), the indexed        *)
(* advance (nextStep) and the select / emit / advance loop that uses them. *)
(*                                                                         *)
(* A tuple of AxisSteppers is a function from tuple positions 0..N-1 to    *)
(* records [index, time, direction].  A float time is an integer, except   *)
(* for the two special values NaN and Inf; the three float tests the code  *)
(* uses (t <= 0, a < b, isnan) are the operators FLe0, FLt and isnan.      *)
EXTENDS Integers, Sequences, FiniteSets, TLC

\* ---------------------------------------------------------------- bounds
MaxAxes  == 3    \* largest tuple in the selection specification
MaxTime  == 5    \* finite positive times are 1..MaxTime
StepAxes == 2    \* largest tuple in the nextStep specification
LoopAxes == 2    \* largest tuple in the usage-loop specification
MaxSteps == 5    \* most steps of one move, all axes together
MaxPin   == 1    \* pins are 0..MaxPin
MaxClock == 1    \* scheduler clock and event times are 0..MaxClock
MaxQueue == 2    \* most events queued in one run

\* ------------------------------------------------------- float encoding
NaN == -1000     \* not-a-number: every ordered comparison with it is false
Inf == 1000      \* +infinity: larger than every finite time

StepBackward == "StepBackward"
StepForward  == "StepForward"
StepDirection == {StepBackward, StepForward}

isnan(t) == t = NaN
\* t <= 0 on floats (false for NaN)
FLe0(t) == (~isnan(t)) /\ t <= 0
\* a < b on floats (false when either side is NaN)
FLt(a, b) == (~isnan(a)) /\ (~isnan(b)) /\ a < b

FinitePos == 1..MaxTime
TimeVals == {NaN, -1, 0, Inf} \cup FinitePos

Positions(n) == 0..(n - 1)

VARIABLES axes,      \* the tuple: position -> [index, time, direction]
          produced,  \* position -> the pending steps _nextStep has produced (history)
          pc,        \* control position of the caller
          sel,       \* position of the axis last returned by getNextTime, or -1
          calls,     \* position -> number of _nextStep invocations
          emitted,   \* steps handed to the driver, in order
          begun,     \* position -> the beginLine / beginArc calls on the axis (history)
          err,       \* an assertion has failed or an error has been reported
          now,       \* the clock of the hardware scheduler
          queued,    \* events passed to DumbHardwareScheduler::queue, in order (history)
          writes,    \* calls of mitpi::setPinState, in order
          ret        \* the last DumbHardwareScheduler::schedTime: [asked, got]

stepperVars == <<axes, produced, pc, sel, calls, emitted, begun>>
schedVars == <<now, queued, writes, ret>>
vars == <<axes, produced, pc, sel, calls, emitted, begun, err, now, queued, writes, ret>>

\* the scheduler, untouched by the stepper specifications
NoSchedTime == [asked |-> 0, got |-> 0]
SchedUnused == now = 0 /\ queued = <<>> /\ writes = <<>> /\ ret = NoSchedTime

NumAxes == Cardinality(DOMAIN axes)

\* ---------------------------------------------------------- getNextTime
\* Mutants of Pick (each a plausible slip in lines 111-116).
PickGreater(t, m1, m2) ==
    IF FLe0(t[m1].time) THEN m2
    ELSE IF FLe0(t[m2].time) THEN m1
    ELSE IF FLt(t[m2].time, t[m1].time) \/ isnan(t[m2].time) THEN m1 ELSE m2

PickNoIsNan(t, m1, m2) ==
    IF FLe0(t[m1].time) THEN m2
    ELSE IF FLe0(t[m2].time) THEN m1
    ELSE IF FLt(t[m1].time, t[m2].time) THEN m1 ELSE m2

PickNoM2Check(t, m1, m2) ==
    IF FLe0(t[m1].time) THEN m2
    ELSE IF FLt(t[m1].time, t[m2].time) \/ isnan(t[m2].time) THEN m1 ELSE m2

PickNoM1Check(t, m1, m2) ==
    IF FLe0(t[m2].time) THEN m1
    ELSE IF FLt(t[m1].time, t[m2].time) \/ isnan(t[m2].time) THEN m1 ELSE m2

PickTieFirst(t, m1, m2) ==
    IF FLe0(t[m1].time) THEN m2
    ELSE IF FLe0(t[m2].time) THEN m1
    ELSE IF FLt(t[m1].time, t[m2].time) \/ t[m1].time = t[m2].time
            \/ isnan(t[m2].time) THEN m1 ELSE m2

\* One pairwise step of the scan: m1 is the position chosen among the
\* positions before m2, m2 the position being examined.
Pick(t, m1, m2) ==
    IF FLe0(t[m1].time) THEN m2
    ELSE IF FLe0(t[m2].time) THEN m1
    ELSE IF FLt(t[m1].time, t[m2].time) \/ isnan(t[m2].time) THEN m1 ELSE m2

\* _AxisStepper__getNextTime<TupleT, idx>: the position chosen among 0..idx.
RECURSIVE GetNextTimeIdx(_, _)
GetNextTimeIdx(t, idx) ==
    IF idx = 0 THEN 0
    ELSE Pick(t, GetNextTimeIdx(t, idx - 1), idx)

\* Mutant of getNextTime: the scan starts one position short of the last.
getNextTimeSkipLast(t) == GetNextTimeIdx(t, Cardinality(DOMAIN t) - 2)

\* AxisStepper::getNextTime(axes): starts the scan at tuple_size - 1.
getNextTime(t) == GetNextTimeIdx(t, Cardinality(DOMAIN t) - 1)

\* ------------------------------------------- specification SpecSel
\* getNextTime as a function of the tuple: every tuple of 2..MaxAxes axes
\* with times drawn from TimeVals, then one call.
AxisRec(i, tm, d) == [index |-> i, time |-> tm, direction |-> d]

SelInit ==
    \E n \in 2..MaxAxes :
      \E tm \in [Positions(n) -> TimeVals] :
        /\ axes = [i \in Positions(n) |-> AxisRec(i, tm[i], StepForward)]
        /\ produced = [i \in Positions(n) |-> <<>>]
        /\ pc = "idle"
        /\ sel = -1
        /\ calls = [i \in Positions(n) |-> 0]
        /\ emitted = <<>>
        /\ begun = [i \in Positions(n) |-> <<>>]
        /\ err = FALSE
        /\ SchedUnused

\* Mutant of the call: a selection that consumes the step it returns.
SelectNextClobber ==
    /\ pc = "idle"
    /\ sel' = getNextTime(axes)
    /\ axes' = [axes EXCEPT ![sel'].time = 0]
    /\ pc' = "returned"
    /\ UNCHANGED <<produced, calls, emitted, begun, err, schedVars>>

SelectNext ==
    /\ pc = "idle"
    /\ sel' = getNextTime(axes)
    /\ pc' = "returned"
    /\ UNCHANGED <<axes, produced, calls, emitted, begun, err, schedVars>>

\* a second call of getNextTime on the same tuple, nothing in between
SelectAgain ==
    /\ pc = "returned"
    /\ sel' = getNextTime(axes)
    /\ pc' = "again"
    /\ UNCHANGED <<axes, produced, calls, emitted, begun, err, schedVars>>

SelNext == SelectNext \/ SelectAgain

SpecSel == SelInit /\ [][SelNext]_vars

\* ------------------------------------------------------------- nextStep
\* The part of the state nextStep works on.
AxisState == [axes |-> axes, produced |-> produced, calls |-> calls, begun |-> begun]

\* _nextStep(useEndstops) of the derived stepper at position i.  nxt is the
\* time and direction the stepper computes for the step that follows the
\* current one (a non-positive time when it has no further step).
_nextStep(st, i, useEndstops, nxt) ==
    [st EXCEPT !.axes[i].time = nxt.time,
               !.axes[i].direction = nxt.direction,
               !.produced[i] = IF FLe0(nxt.time) THEN @ ELSE Append(@, nxt),
               !.calls[i] = @ + 1]

\* Mutants of _AxisStepper__nextStep::operator().
NextStepNoTest(st, myIdx, desiredIdx, useEndstops, nxt) ==
    _nextStep(st, myIdx, useEndstops, nxt)

NextStepOthers(st, myIdx, desiredIdx, useEndstops, nxt) ==
    IF desiredIdx # myIdx THEN _nextStep(st, myIdx, useEndstops, nxt) ELSE st

\* _AxisStepper__nextStep::operator()(myIdx, stepper, desiredIdx, useEndstops)
_AxisStepper__nextStep(st, myIdx, desiredIdx, useEndstops, nxt) ==
    IF desiredIdx = myIdx THEN _nextStep(st, myIdx, useEndstops, nxt) ELSE st

\* callOnAll(axes, _AxisStepper__nextStep(), desiredIdx, useEndstops): the
\* functor applied to every tuple position from k on, in tuple order.
RECURSIVE callOnAll(_, _, _, _, _)
callOnAll(st, k, desiredIdx, useEndstops, nxt) ==
    IF k \notin DOMAIN st.axes THEN st
    ELSE callOnAll(_AxisStepper__nextStep(st, k, desiredIdx, useEndstops, nxt),
                   k + 1, desiredIdx, useEndstops, nxt)

\* Mutant of nextStep: the desired index is the position of the stepper in
\* the tuple instead of this->index().
nextStepByPosition(st, s, useEndstops, nxt) ==
    callOnAll(st, 0, s, useEndstops, nxt)

\* AxisStepper::nextStep(axes, useEndstops) invoked on the stepper at
\* position s: the desired index is this->index().
nextStep(st, s, useEndstops, nxt) ==
    callOnAll(st, 0, st.axes[s].index, useEndstops, nxt)

\* ------------------------------------------- specification SpecStep
\* nextStep on any stepper of any tuple of 2..StepAxes axes: any stored
\* index (0..n, n matching no axis), any time and direction, and any
\* result of the derived _nextStep.
StepTimeVals == {NaN, 0, 1}
StepResults == {[time |-> t, direction |-> d] : t \in {0, MaxTime}, d \in StepDirection}

StepInit ==
    \E n \in 2..StepAxes :
      \E ix \in [Positions(n) -> 0..n], tm \in [Positions(n) -> StepTimeVals],
         dr \in [Positions(n) -> StepDirection] :
        /\ axes = [i \in Positions(n) |-> AxisRec(ix[i], tm[i], dr[i])]
        /\ produced = [i \in Positions(n) |-> <<>>]
        /\ pc = "call"
        /\ sel = -1
        /\ calls = [i \in Positions(n) |-> 0]
        /\ emitted = <<>>
        /\ begun = [i \in Positions(n) |-> <<>>]
        /\ err = FALSE
        /\ SchedUnused

CallNextStep ==
    /\ pc = "call"
    /\ \E s \in DOMAIN axes, useEndstops \in BOOLEAN, nxt \in StepResults :
         LET st == nextStep(AxisState, s, useEndstops, nxt) IN
           /\ axes' = st.axes
           /\ produced' = st.produced
           /\ calls' = st.calls
           /\ sel' = s
    /\ pc' = "stepped"
    /\ UNCHANGED <<emitted, begun, err, schedVars>>

StepNext == CallNextStep

SpecStep == StepInit /\ [][StepNext]_vars

\* ------------------------------------------- specification SpecLoop
\* The usage loop of the path planner over a tuple initialised for a move:
\* getNextTime, stop when the selected time is non-positive, else hand the
\* selected step to the driver and call nextStep on the selected stepper.
\* Each axis produces strictly increasing finite positive step times and
\* then its sentinel; a move has at most MaxSteps steps.

RECURSIVE TotalLen(_, _)
TotalLen(f, k) == IF k \notin DOMAIN f THEN 0 ELSE Len(f[k]) + TotalLen(f, k + 1)

\* an axis steps one way during a move, and ends on its own sentinel
DirectionOf(i) == IF i % 2 = 0 THEN StepForward ELSE StepBackward
SentinelOf(i) == IF i % 2 = 0 THEN 0 ELSE -1
LastTime(st, i) == IF st.produced[i] = <<>> THEN 0
                   ELSE st.produced[i][Len(st.produced[i])].time

\* what the derived _nextStep of the axis at position i can compute next
LoopResults(st, i) ==
    {[time |-> t, direction |-> DirectionOf(i)] :
        t \in {x \in FinitePos : /\ x > LastTime(st, i)
                                 /\ TotalLen(st.produced, 0) < MaxSteps}}
    \cup {[time |-> SentinelOf(i), direction |-> st.axes[i].direction]}

\* beginLine / beginArc of the derived stepper at position i: fixes the
\* trajectory of the axis and produces no step.  The history notes the call
\* and how often the axis had been advanced before it.
beginLine(st, i) ==
    [st EXCEPT !.begun[i] = Append(@, [kind |-> "line", advanced |-> st.calls[i]])]
beginArc(st, i) ==
    [st EXCEPT !.begun[i] = Append(@, [kind |-> "arc", advanced |-> st.calls[i]])]

\* Mutant of the initialiser: the advance before the begin.
RECURSIVE initAxisSteppersAdvanceFirst(_, _, _, _)
initAxisSteppersAdvanceFirst(st, k, useEndstops, first) ==
    IF k \notin DOMAIN st.axes THEN st
    ELSE initAxisSteppersAdvanceFirst(beginLine(_nextStep(st, k, useEndstops, first[k]), k),
                                      k + 1, useEndstops, first)

\* _AxisStepper__initAxisSteppers::operator() on every position from k on:
\* beginLine, then _nextStep.
RECURSIVE initAxisSteppers(_, _, _, _)
initAxisSteppers(st, k, useEndstops, first) ==
    IF k \notin DOMAIN st.axes THEN st
    ELSE initAxisSteppers(_nextStep(beginLine(st, k), k, useEndstops, first[k]),
                          k + 1, useEndstops, first)

\* _AxisStepper__initAxisArcSteppers::operator() on every position from k
\* on: beginArc, then _nextStep.
RECURSIVE initAxisArcSteppers(_, _, _, _)
initAxisArcSteppers(st, k, useEndstops, first) ==
    IF k \notin DOMAIN st.axes THEN st
    ELSE initAxisArcSteppers(_nextStep(beginArc(st, k), k, useEndstops, first[k]),
                             k + 1, useEndstops, first)

\* The steppers as constructed (AxisStepper(idx) sets only the index; time
\* is overwritten by the first _nextStep before it is read, direction is
\* whatever the constructor left).
Constructed(n, d0) ==
    [axes     |-> [i \in Positions(n) |-> AxisRec(i, NaN, d0[i])],
     produced |-> [i \in Positions(n) |-> <<>>],
     calls    |-> [i \in Positions(n) |-> 0],
     begun    |-> [i \in Positions(n) |-> <<>>]]

LoopInit ==
    \E n \in 2..LoopAxes :
      \E d0 \in [Positions(n) -> StepDirection] :
        \E first \in [Positions(n) -> [time : FinitePos \cup {0, -1}, direction : StepDirection]] :
          /\ \A i \in Positions(n) : first[i] \in LoopResults(Constructed(n, d0), i)
          /\ LET st == initAxisSteppers(Constructed(n, d0), 0, FALSE, first) IN
               /\ axes = st.axes
               /\ produced = st.produced
               /\ calls = st.calls
               /\ begun = st.begun
          /\ pc = "loop"
          /\ sel = -1
          /\ emitted = <<>>
          /\ err = FALSE
          /\ SchedUnused

\* One iteration that finds a pending step: select, emit, advance.
StepLoop ==
    /\ pc = "loop"
    /\ LET s == getNextTime(axes) IN
         /\ ~FLe0(axes[s].time)
         /\ sel' = s
         /\ emitted' = Append(emitted, [axis |-> s, time |-> axes[s].time,
                                        direction |-> axes[s].direction])
         /\ \E nxt \in LoopResults(AxisState, s) :
              LET st == nextStep(AxisState, s, FALSE, nxt) IN
                /\ axes' = st.axes
                /\ produced' = st.produced
                /\ calls' = st.calls
    /\ UNCHANGED <<pc, begun, err, schedVars>>

\* The iteration whose selection is non-positive: the move is complete.
StopLoop ==
    /\ pc = "loop"
    /\ LET s == getNextTime(axes) IN
         /\ FLe0(axes[s].time)
         /\ sel' = s
    /\ pc' = "done"
    /\ UNCHANGED <<axes, produced, calls, emitted, begun, err, schedVars>>

LoopNext == StepLoop \/ StopLoop

SpecLoop == LoopInit /\ [][LoopNext]_vars

\* the loop runs until it stops: the planner keeps iterating
FairLoop == SpecLoop /\ WF_vars(LoopNext)

\* ------------------------------------------- specification SpecInit
\* initAxisSteppers / initAxisArcSteppers on freshly constructed steppers:
\* 2..MaxAxes axes whose time and direction are whatever the constructor
\* left, and any first result of each derived _nextStep.
ConstructedTimeVals == {NaN, 1}

InitInit ==
    \E n \in 2..MaxAxes :
      \E tm \in [Positions(n) -> ConstructedTimeVals], dr \in [Positions(n) -> StepDirection] :
        /\ axes = [i \in Positions(n) |-> AxisRec(i, tm[i], dr[i])]
        /\ produced = [i \in Positions(n) |-> <<>>]
        /\ calls = [i \in Positions(n) |-> 0]
        /\ begun = [i \in Positions(n) |-> <<>>]
        /\ pc = "constructed"
        /\ sel = -1
        /\ emitted = <<>>
        /\ err = FALSE
        /\ SchedUnused

\* AxisStepper::initAxisSteppers(steppers, useEndstops, map, curPos, vel)
InitAxisSteppers ==
    /\ pc = "constructed"
    /\ \E useEndstops \in BOOLEAN, first \in [DOMAIN axes -> StepResults] :
         LET st == initAxisSteppers(AxisState, 0, useEndstops, first) IN
           /\ axes' = st.axes
           /\ produced' = st.produced
           /\ calls' = st.calls
           /\ begun' = st.begun
    /\ pc' = "initLine"
    /\ UNCHANGED <<sel, emitted, err, schedVars>>

\* AxisStepper::initAxisArcSteppers(steppers, useEndstops, map, curPos, ...)
InitAxisArcSteppers ==
    /\ pc = "constructed"
    /\ \E useEndstops \in BOOLEAN, first \in [DOMAIN axes -> StepResults] :
         LET st == initAxisArcSteppers(AxisState, 0, useEndstops, first) IN
           /\ axes' = st.axes
           /\ produced' = st.produced
           /\ calls' = st.calls
           /\ begun' = st.begun
    /\ pc' = "initArc"
    /\ UNCHANGED <<sel, emitted, err, schedVars>>

InitNext == InitAxisSteppers \/ InitAxisArcSteppers

SpecInit == InitInit /\ [][InitNext]_vars

\* ------------------------------------------- specification SpecSched
\* rpi::DumbHardwareScheduler (src/src/drivers/rpi/dumbhardwarescheduler.h)
\* under any sequence of queue, queuePwm and schedTime calls, while the
\* clock runs.
PinIds == 0..MaxPin
ClockVals == 0..MaxClock
\* OutputEvent: pinId(), state(), time()
OutputEvent == [pin : PinIds, state : BOOLEAN, time : ClockVals]

\* mitpi::setPinState(pin, state), called at clock value at
setPinState(w, pin, state, at) == Append(w, [pin |-> pin, state |-> state, at |-> at])

\* Mutants of schedTime and queue.
schedTimeEarlier(evtTime) == evtTime - 1

queueInverted(w, e, at) == setPinState(w, e.pin, ~e.state, at)

\* DumbHardwareScheduler::schedTime(evtTime)
schedTime(evtTime) == evtTime

\* DumbHardwareScheduler::queue(e), called at clock value at
queue(w, e, at) == setPinState(w, e.pin, e.state, at)

\* DumbHardwareScheduler::queuePwm(pin, ratio, maxPeriod)
queuePwm(w, pin, ratio, maxPeriod) == w

\* DumbHardwareScheduler(): mitpi::init(); no stepper is involved
SchedInit ==
    /\ now = 0 /\ queued = <<>> /\ writes = <<>> /\ ret = NoSchedTime
    /\ err = FALSE
    /\ pc = "ready"
    /\ axes = <<>> /\ produced = <<>> /\ calls = <<>> /\ begun = <<>>
    /\ sel = -1 /\ emitted = <<>>

\* the clock advances
Tick ==
    /\ now < MaxClock
    /\ now' = now + 1
    /\ UNCHANGED <<stepperVars, err, queued, writes, ret>>

Queue ==
    /\ Len(queued) < MaxQueue
    /\ \E e \in OutputEvent :
         /\ queued' = Append(queued, e)
         /\ writes' = queue(writes, e, now)
    /\ pc' = "queue"
    /\ UNCHANGED <<axes, produced, sel, calls, emitted, begun, err, now, ret>>

QueuePwm ==
    /\ \E pin \in PinIds, ratio \in {0, 1}, maxPeriod \in {0} :
         writes' = queuePwm(writes, pin, ratio, maxPeriod)
    /\ pc' = "queuePwm"
    /\ UNCHANGED <<axes, produced, sel, calls, emitted, begun, err, now, queued, ret>>

SchedTime ==
    /\ \E evtTime \in ClockVals :
         ret' = [asked |-> evtTime, got |-> schedTime(evtTime)]
    /\ pc' = "schedTime"
    /\ UNCHANGED <<axes, produced, sel, calls, emitted, begun, err, now, queued, writes>>

SchedNext == Tick \/ Queue \/ QueuePwm \/ SchedTime

SpecSched == SchedInit /\ [][SchedNext]_vars

\* ------------------------------------------------------ helpers of claims
Returned == pc = "returned"
TimeOf(i) == axes[i].time
IsFinitePos(t) == t \in FinitePos
\* positive and not NaN (finite or infinite)
IsPos(t) == (~isnan(t)) /\ t > 0
IsNonPos(t) == (~isnan(t)) /\ t <= 0

PairwiseDistinct == \A i, j \in DOMAIN axes : i # j => TimeOf(i) # TimeOf(j)
AllFinitePos == \A i \in DOMAIN axes : IsFinitePos(TimeOf(i))

\* the tuple with its axes rearranged by the permutation p
Permuted(p) == [i \in DOMAIN axes |-> axes[p[i]]]
Perms == {p \in [DOMAIN axes -> DOMAIN axes] :
            \A i, j \in DOMAIN axes : i # j => p[i] # p[j]}

\* C1: for N >= 2 axes with finite, positive, pairwise distinct times,
\* getNextTime returns the axis holding the smallest time, and so it does
\* for every permutation of the axes within the tuple.
C1_SmallestDistinct ==
    (Returned /\ AllFinitePos /\ PairwiseDistinct) =>
        /\ \A j \in DOMAIN axes : TimeOf(sel) <= TimeOf(j)
        /\ \A p \in Perms :
              Permuted(p)[getNextTime(Permuted(p))].time = TimeOf(sel)

C1_Witness ==
    /\ Returned /\ NumAxes = 3 /\ AllFinitePos /\ PairwiseDistinct
    /\ TimeOf(0) = 3 /\ TimeOf(1) = 1 /\ TimeOf(2) = 2
    /\ sel = 1

\* C2 (as claimed): when at least one axis holds a non-NaN time, the axis
\* returned by getNextTime never holds NaN, also when the only non-NaN
\* times are non-positive.
C2_NaNNeverReturned ==
    (Returned /\ \E i \in DOMAIN axes : ~isnan(TimeOf(i))) => ~isnan(TimeOf(sel))

\* the smallest finite positive time held in the tuple (0 when none is)
FinitePosTimes == {TimeOf(i) : i \in DOMAIN axes} \cap FinitePos
MinFinitePos ==
    IF FinitePosTimes = {} THEN 0
    ELSE CHOOSE m \in FinitePosTimes : \A x \in FinitePosTimes : m <= x
MinHolders == {i \in DOMAIN axes : TimeOf(i) = MinFinitePos}
Tie == FinitePosTimes # {} /\ Cardinality(MinHolders) >= 2

\* C3 (as claimed): when two or more axes hold the same smallest finite
\* positive time, getNextTime returns the one at the lowest tuple position.
C3_TieLowest ==
    (Returned /\ Tie) => (sel \in MinHolders /\ \A i \in MinHolders : sel <= i)

\* C3 (amended): when two or more axes hold the same smallest finite
\* positive time, getNextTime returns the one at the highest tuple
\* position among them (the one examined last in the left-to-right scan).
C3_TieHighest ==
    (Returned /\ Tie) => (sel \in MinHolders /\ \A i \in MinHolders : sel >= i)

C3_Witness ==
    /\ Returned /\ NumAxes = 3 /\ Tie
    /\ TimeOf(0) = 2 /\ TimeOf(1) = 2 /\ TimeOf(2) = 4
    /\ sel = 1

\* C4: in a two-axis set with one NaN time and one finite positive time
\* getNextTime returns the finite positive axis, at either position of the
\* NaN; and in any set holding a positive non-NaN time the returned axis
\* holds a positive non-NaN time.
C4_NaNLosesToPositive ==
    /\ (Returned /\ NumAxes = 2 /\ isnan(TimeOf(0)) /\ IsFinitePos(TimeOf(1)))
          => sel = 1
    /\ (Returned /\ NumAxes = 2 /\ IsFinitePos(TimeOf(0)) /\ isnan(TimeOf(1)))
          => sel = 0
    /\ (Returned /\ \E i \in DOMAIN axes : IsPos(TimeOf(i))) => IsPos(TimeOf(sel))

C4_Witness ==
    /\ Returned /\ NumAxes = 2
    /\ TimeOf(0) = 3 /\ isnan(TimeOf(1))
    /\ sel = 0

\* C5: when at least one axis holds a finite positive time and every other
\* axis a non-positive one, getNextTime returns an axis holding a finite
\* positive time, wherever the non-positive axes sit in the tuple.
C5_NonPositiveNeverEarliest ==
    (/\ Returned
     /\ \E i \in DOMAIN axes : IsFinitePos(TimeOf(i))
     /\ \E i \in DOMAIN axes : IsNonPos(TimeOf(i))
     /\ \A i \in DOMAIN axes : IsFinitePos(TimeOf(i)) \/ IsNonPos(TimeOf(i)))
        => IsFinitePos(TimeOf(sel))

C5_Witness ==
    /\ Returned /\ NumAxes = 3
    /\ TimeOf(0) = 4 /\ TimeOf(1) = -1 /\ TimeOf(2) = 0
    /\ sel = 0

\* the caller's stop test on the axis getNextTime returned
StopTest == FLe0(TimeOf(sel))

\* C6: when every axis holds a non-positive time the returned axis holds a
\* non-positive time, so the stop test reports the move complete; and the
\* stop test never fires while some axis holds a finite positive time.
C6_StopTest ==
    /\ (Returned /\ \A i \in DOMAIN axes : IsNonPos(TimeOf(i))) => StopTest
    /\ (Returned /\ \E i \in DOMAIN axes : IsFinitePos(TimeOf(i))) => ~StopTest

C6_Witness ==
    /\ Returned /\ NumAxes = 2
    /\ TimeOf(0) = 0 /\ TimeOf(1) = -1
    /\ sel = 1 /\ StopTest

\* the index nextStep was invoked with in this step: this->index() of the
\* stepper at position sel'
Desired == axes[sel'].index
TotalCalls(c) == LET RECURSIVE Sum(_)
                     Sum(k) == IF k \notin DOMAIN c THEN 0 ELSE c[k] + Sum(k + 1)
                 IN Sum(0)

\* C7: a call of nextStep with a valid target index invokes _nextStep on
\* exactly one axis, the one at the tuple position equal to that index, and
\* leaves the time and direction of every other axis unchanged.
C7_OnlyTargetAdvanced ==
    [][(pc = "call" /\ pc' = "stepped" /\ Desired \in DOMAIN axes) =>
          /\ calls'[Desired] = calls[Desired] + 1
          /\ TotalCalls(calls') = TotalCalls(calls) + 1
          /\ \A i \in DOMAIN axes : i # Desired =>
                /\ axes'[i].time = axes[i].time
                /\ axes'[i].direction = axes[i].direction
                /\ calls'[i] = calls[i]]_vars

C7_Witness ==
    /\ pc = "stepped" /\ NumAxes = 2
    /\ axes[sel].index = 1 /\ sel = 1
    /\ calls[1] = 1 /\ calls[0] = 0
    /\ axes[1].time = MaxTime /\ axes[1].direction = StepBackward
    /\ axes[0].time = 1 /\ axes[0].direction = StepForward /\ produced[0] = <<>>

\* ------------------------------------------------------ the usage loop
Done == pc = "done"
\* the steps of axis i among the emitted ones, in emission order
EmittedOf(i) == SelectSeq(emitted, LAMBDA e : e.axis = i)
StepOnly(e) == [time |-> e.time, direction |-> e.direction]
SameSteps(es, ps) ==
    /\ Len(es) = Len(ps)
    /\ \A k \in 1..Len(es) : StepOnly(es[k]) = ps[k]
TimeOrdered(es) == \A k \in 1..(Len(es) - 1) : es[k].time <= es[k + 1].time
\* axis i holds a step that has not been selected
Pending(i) == ~FLe0(axes[i].time)
\* the steps axis i produced, but for the one it still holds
Passed(i) == IF Pending(i) /\ produced[i] # <<>>
             THEN SubSeq(produced[i], 1, Len(produced[i]) - 1) ELSE produced[i]
TimesOf(q) == [k \in 1..Len(q) |-> q[k].time]

\* C8: over axes that each produce a strictly increasing sequence of
\* positive step times and then the sentinel, the loop has, when it reports
\* the move complete, selected every step every axis produced exactly once,
\* in a time-ordered merge of the per-axis sequences; before that it has
\* selected, in time order, every produced step but those still pending.
C8_MergeOfProduced ==
    /\ TimeOrdered(emitted)
    /\ \A i \in DOMAIN axes : SameSteps(EmittedOf(i), Passed(i))
    /\ Done => /\ \A i \in DOMAIN axes : SameSteps(EmittedOf(i), produced[i])
               /\ Len(emitted) = TotalLen(produced, 0)

\* axis 0 steps at 1.0, 2.0, 3.0 and axis 1 at 1.5, 4.0 (times in the order
\* 1 < 2 < 3 < 4 < 5): axis0, axis1, axis0, axis0, axis1, complete.
C8_Witness ==
    /\ Done /\ NumAxes = 2
    /\ TimesOf(produced[0]) = <<1, 3, 4>>
    /\ TimesOf(produced[1]) = <<2, 5>>
    /\ [k \in 1..Len(emitted) |-> <<emitted[k].axis, emitted[k].time>>]
          = << <<0, 1>>, <<1, 2>>, <<0, 3>>, <<0, 4>>, <<1, 5>> >>

\* iterations made so far, counting the one that stops
Iterations == Len(emitted) + (IF Done THEN 1 ELSE 0)

\* C9: the loop terminates with no axis left holding an unselected pending
\* step: until it has stopped the loop can always make its next iteration,
\* every iteration is one more of at most MaxSteps + 1 (one per step the
\* axes produce, and the stop), and at the stop no axis is pending.
C9_Terminates ==
    /\ [](Done \/ ENABLED LoopNext)
    /\ [][Iterations' = Iterations + 1]_vars
    /\ [](Iterations <= MaxSteps + 1)
    /\ [](Done => \A i \in DOMAIN axes : ~Pending(i))

\* C9 as a liveness property of the loop that keeps iterating (FairLoop).
C9_EventuallyDone == <>(Done /\ \A i \in DOMAIN axes : ~Pending(i))

C9_Witness ==
    /\ Done /\ Len(emitted) = MaxSteps
    /\ \A i \in DOMAIN axes : ~Pending(i) /\ Len(produced[i]) > 0

\* C10: the times of successively selected steps never decrease, two
\* successive selections of equal time are of different axes, and the
\* times selected for any one axis are strictly increasing.
C10_TimesInOrder ==
    /\ \A k \in 1..(Len(emitted) - 1) :
          /\ emitted[k].time <= emitted[k + 1].time
          /\ emitted[k].time = emitted[k + 1].time => emitted[k].axis # emitted[k + 1].axis
    /\ \A i \in DOMAIN axes :
          \A k \in 1..(Len(EmittedOf(i)) - 1) :
              EmittedOf(i)[k].time < EmittedOf(i)[k + 1].time

C10_Witness ==
    /\ Len(emitted) = 3
    /\ emitted[1].time = 2 /\ emitted[2].time = 2 /\ emitted[3].time = 4
    /\ emitted[1].axis # emitted[2].axis /\ emitted[3].axis = emitted[1].axis

\* C11: under the usage loop, once an axis' time is non-positive it stays
\* non-positive for the rest of the move, and the axis is never again the
\* target of _nextStep.
C11_TerminalStaysTerminal ==
    [][\A i \in DOMAIN axes :
          FLe0(axes[i].time) => (FLe0(axes'[i].time) /\ calls'[i] = calls[i])]_vars

\* axis 0 ended after its one step at time 1; axis 1 went on to 2 and 3
C11_Witness ==
    /\ Done /\ NumAxes = 2
    /\ TimesOf(produced[0]) = <<1>> /\ TimesOf(produced[1]) = <<2, 3>>
    /\ calls[0] = 2 /\ calls[1] = 3
    /\ FLe0(axes[0].time)

\* C12 (as claimed): nextStep with an index that matches no axis never
\* returns normally: it ends in an error state.
C12_InvalidIndexFatal ==
    (pc = "stepped" /\ axes[sel].index \notin DOMAIN axes) => err

\* C12 (amended): nextStep with an index that matches no axis returns
\* normally, having invoked _nextStep on no axis and changed nothing in the
\* axis-set; no assertion fails.
C12_InvalidIndexNoOp ==
    [][(pc = "call" /\ pc' = "stepped" /\ Desired \notin DOMAIN axes) =>
          /\ ~err'
          /\ axes' = axes /\ produced' = produced /\ calls' = calls]_vars

C12_Witness ==
    /\ pc = "stepped" /\ NumAxes = 2
    /\ axes[sel].index = 2
    /\ \A i \in DOMAIN axes : calls[i] = 0
    /\ ~err

\* the first pending step of axis i is populated by one _nextStep
Populated(i) ==
    /\ axes[i].time \in {r.time : r \in StepResults}
    /\ produced[i] = IF FLe0(axes[i].time) THEN <<>>
                     ELSE <<[time |-> axes[i].time, direction |-> axes[i].direction]>>

\* C13: when initAxisSteppers (initAxisArcSteppers) returns, every axis has
\* had beginLine (beginArc) called exactly once, before any advance of it,
\* and _nextStep exactly once, so its first pending step is populated.
C13_BeginThenAdvanceOnce ==
    /\ pc = "initLine" =>
          \A i \in DOMAIN axes :
              /\ begun[i] = <<[kind |-> "line", advanced |-> 0]>>
              /\ calls[i] = 1
              /\ Populated(i)
    /\ pc = "initArc" =>
          \A i \in DOMAIN axes :
              /\ begun[i] = <<[kind |-> "arc", advanced |-> 0]>>
              /\ calls[i] = 1
              /\ Populated(i)

C13_Witness ==
    /\ pc = "initLine" /\ NumAxes = 3
    /\ \A i \in DOMAIN axes : begun[i] = <<[kind |-> "line", advanced |-> 0]>> /\ calls[i] = 1
    /\ axes[0].time = MaxTime /\ axes[1].time = 0 /\ axes[2].time = MaxTime
    /\ axes[0].direction = StepBackward

\* ------------------------------------------------ the hardware scheduler
\* C14 (as claimed): the pin-state write of a queued event never happens
\* before schedTime(e.time()): queue waits until then when called earlier.
C14_NotBeforeSchedTime ==
    \A k \in 1..Len(writes) : writes[k].at >= schedTime(queued[k].time)

\* C15: after any sequence of queue calls every queued event has caused
\* exactly one pin-state write, with its pin id and state, the writes are
\* in the order of the queue calls, and no other pin is written.
C15_EveryEventWritten ==
    /\ Len(writes) = Len(queued)
    /\ \A k \in 1..Len(writes) :
          writes[k].pin = queued[k].pin /\ writes[k].state = queued[k].state
    /\ {writes[k].pin : k \in 1..Len(writes)} = {queued[k].pin : k \in 1..Len(queued)}

C15_Witness ==
    /\ Len(queued) = 2 /\ Len(writes) = 2
    /\ queued[1].pin = 1 /\ queued[1].state /\ queued[2].pin = 0 /\ ~queued[2].state
    /\ writes[1].pin = 1 /\ writes[1].state /\ writes[2].pin = 0 /\ ~writes[2].state
    /\ pc = "queuePwm"

\* C16 (as claimed): queuePwm reports the request as unsupported: once it
\* has returned, an error has been reported.
C16_PwmReported == pc = "queuePwm" => err

\* C17: schedTime(t) returns a time at or after t, here t itself, and the
\* call changes neither the clock, nor the queue, nor any pin.
C17_SchedTimeIdentity ==
    /\ [](ret.got >= ret.asked /\ ret.got = ret.asked)
    /\ [][(pc' = "schedTime" /\ (pc # "schedTime" \/ ret' # ret)) =>
             /\ now' = now /\ queued' = queued /\ writes' = writes
             /\ err' = err]_vars

C17_Witness ==
    /\ pc = "schedTime" /\ ret = [asked |-> 1, got |-> 1]
    /\ Len(writes) = 1 /\ now = 0

\* ------------------------------------------------ index and position
\* every axis's stored index equals its position in the tuple
IndexIsPosition == \A i \in DOMAIN axes : axes[i].index = i

\* nextStep invoked on the stepper at position s advances that stepper
AdvancesItself(s) ==
    \A useEndstops \in BOOLEAN, nxt \in StepResults :
       nextStep(AxisState, s, useEndstops, nxt).calls[s] = calls[s] + 1

\* C18: nextStep invoked on a stepper s advances the axis at the tuple
\* position equal to s.index(); s itself is advanced exactly when its stored
\* index is its own position, so nextStep advances whichever stepper it is
\* invoked on only if every stored index equals its position, and then a
\* call advances the selected stepper and no other.
C18_AdvancesStoredIndex ==
    /\ [](pc = "call" => ((\A s \in DOMAIN axes : AdvancesItself(s)) <=> IndexIsPosition))
    /\ [][(pc = "call" /\ pc' = "stepped") =>
            /\ Desired \in DOMAIN axes => calls'[Desired] = calls[Desired] + 1
            /\ calls'[sel'] = calls[sel'] + 1 <=> Desired = sel'
            /\ IndexIsPosition =>
                 /\ calls'[sel'] = calls[sel'] + 1
                 /\ axes'[sel'].time \in {r.time : r \in StepResults}
                 /\ \A i \in DOMAIN axes : i # sel' =>
                       calls'[i] = calls[i] /\ axes'[i] = axes[i]]_vars

C18_Witness ==
    /\ pc = "stepped" /\ NumAxes = 2
    /\ sel = 0 /\ axes[0].index = 1 /\ axes[1].index = 1
    /\ calls[0] = 0 /\ calls[1] = 1
    /\ axes[0].time = 1 /\ axes[1].time = MaxTime

====
